---- MODULE Spec2Model ----
(***************************************************************************)
(* Dual EC generator with a backdoor (src/dualec.py): gen_backdoor, the    *)
(* DualEC state machine, and the state-recovery search gen_prediction.     *)
(*                                                                         *)
(* The source works on P-256 with 30-byte outputs.  The arithmetic here is *)
(* the same, on a curve of the same shape (y^2 = x^3 - 3x + b over a prime *)
(* p = 3 mod 4, prime group order q < p < 2^FieldBits) whose numbers fit   *)
(* the model checker's integers.  Every width keeps its role:              *)
(*   FieldBits = OutBits + HighBits        (256 = 240 + 16 in the source)  *)
(*   OutBits   = ChkBits + PredBits        (240 =  32 + 208 in the source) *)
(***************************************************************************)
EXTENDS Integers, Sequences, FiniteSets

(* ---------------- curve parameters (fastecdsa.curve.P256) -------------- *)
\* field prime p, coefficient b (a = -3), group order q, base point G:
\* 241 points, x = 0 and x = p - 1 are x-coordinates of curve points
P256_p == 251
P256_b == 153
P256_q == 241
Gx == 2
Gy == 54

(* ---------------- widths used by the source ---------------------------- *)
FieldBits == 8
HighBits == 2
ChkBits == 3
OutBits == FieldBits - HighBits
PredBits == OutBits - ChkBits

(* ---------------- bounds of the explored inputs ------------------------ *)
\* seeds of main() are 1..MaxSeed; a generator on its own is called up to
\* MaxCalls times; a direct call of gen_prediction has d in 2..MaxD and
\* Q = e * G with e in 1..MaxE
MaxSeed == 3
MaxCalls == 3
MaxD == 4
MaxE == 2

VARIABLES pc, caller, P, Q, d, seed, t, out, observed1, observed2,
          high_bits, guess, point, state, next_output, result

vars == <<pc, caller, P, Q, d, seed, t, out, observed1, observed2,
          high_bits, guess, point, state, next_output, result>>

(* ---------------- integers --------------------------------------------- *)
RECURSIVE Pow2(_)
Pow2(n) == IF n = 0 THEN 1 ELSE 2 * Pow2(n - 1)

RECURSIVE BitOr(_, _)
BitOr(a, c) ==
    IF a = 0 THEN c
    ELSE IF c = 0 THEN a
    ELSE (IF a % 2 = 1 \/ c % 2 = 1 THEN 1 ELSE 0) + 2 * BitOr(a \div 2, c \div 2)

RECURSIVE ModExp(_, _, _)
ModExp(a, e, m) ==
    IF e = 0 THEN 1 % m
    ELSE LET h == ModExp(a, e \div 2, m)
             sq == (h * h) % m
         IN  IF e % 2 = 1 THEN (sq * (a % m)) % m ELSE sq

(* ---------------- mathutil (not in src/): mod_inv, p256_mod_sqrt ------- *)
Fail == -1

\* mod_inv(a, n): the inverse of a modulo the prime n; fails when a and n
\* are not coprime.
mod_inv(a, n) == IF a % n = 0 THEN Fail ELSE ModExp(a, n - 2, n)

\* p = 3 mod 4: a^((p+1)/4) is a square root of a when a has one, and some
\* other value when it has none.
p256_mod_sqrt(a) == ModExp(a, (P256_p + 1) \div 4, P256_p)

(* ---------------- fastecdsa.point.Point -------------------------------- *)
None == [x |-> -1, y |-> -1]
IDENTITY_ELEMENT == [x |-> 0, y |-> 0]

is_point_on_curve(x, y) ==
    (y * y - ((x * x * x) - (3 * x) + P256_b)) % P256_p = 0

\* Point(x, y, curve=P256): the coordinates as given; rejects a pair that
\* does not satisfy the curve equation.
Point(x, y) == IF is_point_on_curve(x, y) THEN [x |-> x, y |-> y] ELSE None

FInv(a) == ModExp(a, P256_p - 2, P256_p)

Neg(A) == IF A = IDENTITY_ELEMENT THEN A ELSE [x |-> A.x, y |-> (P256_p - A.y) % P256_p]

PointAdd(A, B) ==
    IF A = IDENTITY_ELEMENT THEN B
    ELSE IF B = IDENTITY_ELEMENT THEN A
    ELSE IF A.x = B.x /\ (A.y + B.y) % P256_p = 0 THEN IDENTITY_ELEMENT
    ELSE LET lam == IF A = B
                    THEN ((3 * A.x * A.x - 3) * FInv(2 * A.y)) % P256_p
                    ELSE ((B.y - A.y) * FInv(B.x - A.x)) % P256_p
             x3 == (lam * lam - A.x - B.x) % P256_p
             y3 == (lam * (A.x - x3) - A.y) % P256_p
         IN  [x |-> x3, y |-> y3]

RECURSIVE DoubleAndAdd(_, _)
DoubleAndAdd(k, A) ==
    IF k = 0 THEN IDENTITY_ELEMENT
    ELSE LET h == DoubleAndAdd(k \div 2, A)
             dbl == PointAdd(h, h)
         IN  IF k % 2 = 1 THEN PointAdd(dbl, A) ELSE dbl

\* scalar * point: the scalar is taken modulo the group order, the
\* coordinates modulo the field prime.
mul(k, A) ==
    DoubleAndAdd(k % P256_q, [x |-> A.x % P256_p, y |-> A.y % P256_p])

G == [x |-> Gx, y |-> Gy]

(* ---------------- src/dualec.py: pure helpers -------------------------- *)
take30bytes(x) == x % Pow2(OutBits)

take26bytes_prec(n) == ((n \div Pow2(PredBits)) % 2) * Pow2(PredBits) - 1
take26bytes(n) == n % Pow2(PredBits)

take4MSBytes_off(n) == n \div Pow2(PredBits + 1)
take4MSBytes(n) == n \div Pow2(PredBits)

find_point_unverified(x) ==
    LET y2 == ((x * x * x) - (3 * x) + P256_b) % P256_p
        y == p256_mod_sqrt(y2)
    IN  [x |-> x, y |-> y]
find_point_on_p256(x) ==
    LET y2 == ((x * x * x) - (3 * x) + P256_b) % P256_p
        y == p256_mod_sqrt(y2)
    IN  IF y2 = (y * y) % P256_p THEN Point(x, y) ELSE None

\* guess = (high_bits << (8 * 30)) | observed1
guess_of(hb, o1) == BitOr(hb * Pow2(OutBits), o1)

\* state = (d*point).x
recover_state_y(dd, pt) == mul(dd, pt).y
recover_state(dd, pt) == mul(dd, pt).x

\* next_output = take30bytes((state*Q).x)
predict_output(st, QQ) == take30bytes(mul(st, QQ).x)

(* ---------------- DualEC.genbits --------------------------------------- *)
\* a seed kept on the class: every instance reads and writes the same one
genbits_shared(self) ==
    LET tt == seed[1]
        s == mul(tt, P).x
        r == mul(s, Q).x
    IN  /\ t' = [t EXCEPT ![self] = tt]
        /\ seed' = [i \in DOMAIN seed |-> IF i = 1 \/ i = self THEN s ELSE seed[i]]
        /\ out' = [out EXCEPT ![self] = Append(@, take30bytes(r))]

\* the output taken from the old seed t instead of the new seed s
genbits_stale(self) ==
    LET tt == seed[self]
        s == mul(tt, P).x
        r == mul(tt, Q).x
    IN  /\ t' = [t EXCEPT ![self] = tt]
        /\ seed' = [seed EXCEPT ![self] = s]
        /\ out' = [out EXCEPT ![self] = Append(@, take30bytes(r))]

\* the whole point kept as the seed instead of its x-coordinate
genbits_wide(self) ==
    LET tt == seed[self]
        pt == mul(tt, P)
        s == pt.x + Pow2(FieldBits) * pt.y
        r == mul(s, Q).x
    IN  /\ t' = [t EXCEPT ![self] = tt]
        /\ seed' = [seed EXCEPT ![self] = s]
        /\ out' = [out EXCEPT ![self] = Append(@, take30bytes(r))]

genbits(self) ==
    LET tt == seed[self]
        s == mul(tt, P).x
        r == mul(s, Q).x
    IN  /\ t' = [t EXCEPT ![self] = tt]
        /\ seed' = [seed EXCEPT ![self] = s]
        /\ out' = [out EXCEPT ![self] = Append(@, take30bytes(r))]

(* ---------------- main(): backdoor, generator, observation ------------- *)
Init ==
    /\ pc = "start"
    /\ caller = "none"
    /\ P = G
    /\ Q = None
    /\ d = -1
    /\ seed = << >>
    /\ t = << >>
    /\ out = << >>
    /\ observed1 = -1
    /\ observed2 = -1
    /\ high_bits = -1
    /\ guess = -1
    /\ point = None
    /\ state = -1
    /\ next_output = -1
    /\ result = -1

search_locals == <<high_bits, guess, point, state, next_output, result>>

\* gen_backdoor(): d = randint(2, P256.q); e = mod_inv(d, P256.q); Q = e * P;
\* assert d * Q == P.
gen_backdoor ==
    /\ pc = "start"
    /\ \E dd \in 2..P256_q :
          LET e == mod_inv(dd, P256_q)
              QQ == mul(e, G)
          IN  /\ d' = dd
              /\ caller' = "main"
              /\ IF e = Fail
                 THEN pc' = "mod_inv_failed" /\ Q' = Q
                 ELSE /\ Q' = QQ
                      /\ pc' = IF mul(dd, QQ) = G THEN "backdoor" ELSE "assert_failed"
    /\ UNCHANGED <<P, seed, t, out, observed1, observed2, search_locals>>

\* seed = randint(1, 2**30); dualec = DualEC(seed, P, Q)
NewDualEC ==
    /\ pc = "backdoor"
    /\ \E s \in 1..MaxSeed :
          /\ seed' = <<s>>
          /\ t' = <<-1>>
          /\ out' = << <<>> >>
    /\ pc' = "run"
    /\ UNCHANGED <<caller, P, Q, d, observed1, observed2, search_locals>>

\* bits1 = dualec.genbits(); bits2 = dualec.genbits()
MainGenbits ==
    /\ pc = "run"
    /\ Len(out[1]) < 2
    /\ genbits(1)
    /\ UNCHANGED <<pc, caller, P, Q, d, observed1, observed2, search_locals>>

\* observed1 = bits1; observed2 = bits2 >> (26 * 8); gen_prediction(...)
Observe ==
    /\ pc = "run"
    /\ Len(out[1]) = 2
    /\ observed1' = out[1][1]
    /\ observed2' = out[1][2] \div Pow2(PredBits)
    /\ high_bits' = 0
    /\ pc' = "loop"
    /\ UNCHANGED <<caller, P, Q, d, seed, t, out, guess, point, state,
                   next_output, result>>

\* gen_prediction called on its own, with any observation and any (Q, d)
CallPrediction ==
    /\ pc = "start"
    /\ \E o1 \in 0..(Pow2(OutBits) - 1), o2 \in 0..Pow2(ChkBits),
          dd \in 2..MaxD, e \in 1..MaxE :
          /\ observed1' = o1
          /\ observed2' = o2
          /\ d' = dd
          /\ Q' = mul(e, G)
    /\ caller' = "direct"
    /\ high_bits' = 0
    /\ pc' = "loop"
    /\ UNCHANGED <<P, seed, t, out, guess, point, state, next_output, result>>

(* ---------------- gen_prediction: one pass of the loop ----------------- *)
InLoop == pc = "loop" /\ high_bits < Pow2(HighBits)

\* point is None: on to the next high_bits
Discard_abort ==
    /\ InLoop
    /\ find_point_on_p256(guess_of(high_bits, observed1)) = None
    /\ guess' = guess_of(high_bits, observed1)
    /\ point' = None
    /\ pc' = "raised"
    /\ UNCHANGED <<caller, P, Q, d, seed, t, out, observed1, observed2,
                   high_bits, state, next_output, result>>

Discard ==
    /\ InLoop
    /\ find_point_on_p256(guess_of(high_bits, observed1)) = None
    /\ guess' = guess_of(high_bits, observed1)
    /\ point' = None
    /\ high_bits' = high_bits + 1
    /\ UNCHANGED <<pc, caller, P, Q, d, seed, t, out, observed1, observed2,
                   state, next_output, result>>

\* a point, but the top 4 bytes differ: on to the next high_bits
Reject_skip ==
    /\ InLoop
    /\ LET g == guess_of(high_bits, observed1)
           pt == find_point_on_p256(g)
           st == recover_state(d, pt)
           no == predict_output(st, Q)
       IN  /\ pt # None
           /\ take4MSBytes(no) # observed2
           /\ guess' = g
           /\ point' = pt
           /\ state' = st
           /\ next_output' = no
    /\ high_bits' = high_bits + 2
    /\ UNCHANGED <<pc, caller, P, Q, d, seed, t, out, observed1, observed2, result>>

Reject ==
    /\ InLoop
    /\ LET g == guess_of(high_bits, observed1)
           pt == find_point_on_p256(g)
           st == recover_state(d, pt)
           no == predict_output(st, Q)
       IN  /\ pt # None
           /\ take4MSBytes(no) # observed2
           /\ guess' = g
           /\ point' = pt
           /\ state' = st
           /\ next_output' = no
    /\ high_bits' = high_bits + 1
    /\ UNCHANGED <<pc, caller, P, Q, d, seed, t, out, observed1, observed2, result>>

\* a point and the top 4 bytes match: return take26bytes(next_output)
Accept ==
    /\ InLoop
    /\ LET g == guess_of(high_bits, observed1)
           pt == find_point_on_p256(g)
           st == recover_state(d, pt)
           no == predict_output(st, Q)
       IN  /\ pt # None
           /\ take4MSBytes(no) = observed2
           /\ guess' = g
           /\ point' = pt
           /\ state' = st
           /\ next_output' = no
           /\ result' = take26bytes(no)
    /\ pc' = "returned"
    /\ UNCHANGED <<caller, P, Q, d, seed, t, out, observed1, observed2, high_bits>>

\* the range is used up: raise ValueError
Exhausted ==
    /\ pc = "loop"
    /\ high_bits >= Pow2(HighBits)
    /\ pc' = "raised"
    /\ UNCHANGED <<caller, P, Q, d, seed, t, out, observed1, observed2,
                   search_locals>>

Next ==
    \/ gen_backdoor
    \/ NewDualEC
    \/ MainGenbits
    \/ Observe
    \/ CallPrediction
    \/ Discard
    \/ Reject
    \/ Accept
    \/ Exhausted

Spec == Init /\ [][Next]_vars

(* ---------------- the generator on its own: two instances -------------- *)
InitGen ==
    /\ pc = "gen"
    /\ caller = "none"
    /\ P = G
    /\ \E e \in 1..MaxE : Q = mul(e, G)
    /\ d = -1
    /\ \E s \in 0..(Pow2(OutBits) - 1) : seed = <<s, s>>
    /\ t = <<-1, -1>>
    /\ out = << <<>>, <<>> >>
    /\ observed1 = -1
    /\ observed2 = -1
    /\ high_bits = -1
    /\ guess = -1
    /\ point = None
    /\ state = -1
    /\ next_output = -1
    /\ result = -1

GenStep ==
    /\ pc = "gen"
    /\ \E self \in 1..2 :
          /\ Len(out[self]) < MaxCalls
          /\ genbits(self)
    /\ UNCHANGED <<pc, caller, P, Q, d, observed1, observed2, search_locals>>

NextGen == GenStep

SpecGen == InitGen /\ [][NextGen]_vars

(* ======================= properties ==================================== *)
NumGuesses == Pow2(HighBits)

\* x is the x-coordinate of a curve point: some field element y has
\* y^2 = x^3 - 3x + b (mod p)
OnCurveX(x) ==
    \E y \in 0..(P256_p - 1) :
        (y * y) % P256_p = ((x * x * x) - (3 * x) + P256_b) % P256_p

\* the 30-byte value candidate hb leads to, -1 when its guess is no curve point
CandidateOutput(hb) ==
    LET pt == find_point_on_p256(guess_of(hb, observed1))
    IN  IF pt = None THEN -1
        ELSE mul(mul(d, pt).x, Q).x % Pow2(OutBits)

\* candidate hb passes the curve-membership test and the top-4-byte comparison
Verified(hb) ==
    /\ CandidateOutput(hb) # -1
    /\ CandidateOutput(hb) \div Pow2(PredBits) = observed2

\* main() has made both genbits() calls: t[1] is the seed after the first
\* call, seed[1] the seed after the second
Genuine == caller = "main" /\ pc \in {"loop", "returned", "raised"}

\* the x-coordinate the first output was cut from, and its unseen top bits
TrueR1 == mul(t[1], Q).x
TrueHigh == TrueR1 \div Pow2(OutBits)

\* the point behind the first output is not the point at infinity
FirstPointFinite == t[1] % P256_q # 0

(* C1 (as stated): in main(), gen_prediction never raises and returns      *)
(* exactly the low 26 bytes of the second output, bits2 & (2^208 - 1).     *)
C1_RoundTrip ==
    (caller = "main" /\ pc \in {"returned", "raised"}) =>
        (pc = "returned" /\ result = out[1][2] % Pow2(PredBits))

(* C1 (amended): in main(), with the first output's point finite,          *)
(* gen_prediction never raises and stops no later than the true top bits;  *)
(* it returns the low 26 bytes of the second output whenever no smaller    *)
(* high_bits passes both tests.                                            *)
C1_RoundTripFirstMatch ==
    (caller = "main" /\ pc \in {"returned", "raised"} /\ FirstPointFinite) =>
        /\ pc = "returned"
        /\ high_bits <= TrueHigh
        /\ (\A hb \in 0..(TrueHigh - 1) : ~Verified(hb)) =>
               (high_bits = TrueHigh /\ result = out[1][2] % Pow2(PredBits))

C1_Witness ==
    /\ caller = "main" /\ pc = "returned" /\ FirstPointFinite
    /\ high_bits = TrueHigh /\ high_bits >= 2
    /\ result = out[1][2] % Pow2(PredBits) /\ result > 0

(* C2: gen_backdoor always returns a triple (P, Q, d) with d * Q = P; it   *)
(* never aborts, for any d in [2, curve_order].                            *)
C2_BackdoorAlways ==
    caller = "main" =>
        (pc \notin {"mod_inv_failed", "assert_failed"} /\ mul(d, Q) = P)

(* C3: two DualEC instances with the same initial seed and the same P, Q   *)
(* give the same outputs call by call, and hold the same seed after the    *)
(* same number of calls.                                                   *)
C3_Deterministic ==
    pc = "gen" =>
        /\ \A n \in 1..Len(out[1]) : n <= Len(out[2]) => out[1][n] = out[2][n]
        /\ Len(out[1]) = Len(out[2]) => seed[1] = seed[2]

C3_Witness ==
    /\ pc = "gen" /\ Len(out[1]) = 2 /\ Len(out[2]) = 2
    /\ out[1][1] # out[1][2] /\ seed[1] # t[1] /\ out[2] = out[1]

(* C4: one genbits() call on seed t stores s = x(t * P), returns the       *)
(* x-coordinate of (s * Q) cut to its low 240 bits (from the new seed s),  *)
(* a value in [0, 2^240 - 1], and leaves P and Q alone.                    *)
C4_GenbitsStep ==
    [][\A i \in DOMAIN seed :
          (i \in DOMAIN out' /\ Len(out'[i]) = Len(out[i]) + 1) =>
              LET s == mul(seed[i], P).x
                  ret == out'[i][Len(out'[i])]
              IN  /\ seed'[i] = s
                  /\ ret = mul(s, Q).x % Pow2(OutBits)
                  /\ ret \in 0..(Pow2(OutBits) - 1)
                  /\ SubSeq(out'[i], 1, Len(out[i])) = out[i]
                  /\ P' = P /\ Q' = Q]_vars

C4_Witness ==
    /\ pc = "gen" /\ Len(out[1]) = 1 /\ Len(out[2]) = 0
    /\ seed[1] = mul(seed[2], P).x /\ seed[1] # seed[2]
    /\ mul(seed[1], Q).x >= Pow2(OutBits)
    /\ out[1][1] = mul(seed[1], Q).x % Pow2(OutBits)
    /\ out[1][1] # mul(seed[2], Q).x % Pow2(OutBits)

(* C5 (as stated): after any number of genbits() calls the stored seed     *)
(* fits in 30 bytes, 0 <= seed < 2^240.                                    *)
C5_SeedFits30Bytes ==
    \A i \in DOMAIN seed : 0 <= seed[i] /\ seed[i] < Pow2(OutBits)

(* C5 (amended): after any number of genbits() calls the stored seed is a  *)
(* field element, 0 <= seed < p (32 bytes); only the outputs are cut to    *)
(* 30 bytes.                                                               *)
C5_SeedIsFieldElement ==
    /\ \A i \in DOMAIN seed : 0 <= seed[i] /\ seed[i] < P256_p
    /\ \A i \in DOMAIN out : \A n \in 1..Len(out[i]) :
           0 <= out[i][n] /\ out[i][n] < Pow2(OutBits)

C5_Witness ==
    /\ pc = "gen" /\ Len(out[1]) >= 1
    /\ seed[1] >= Pow2(OutBits) /\ seed[1] < P256_p

(* C6: the search examines high_bits = 0, 1, ... each at most once and at  *)
(* most 2^16 of them; it raises exactly when the range is used up with no  *)
(* candidate passing both tests, returns only on a candidate passing both, *)
(* and a candidate failing the curve test alone never ends it.             *)
C6_SearchExhaustion ==
    [][/\ (pc # "loop" /\ pc' = "loop") => high_bits' = 0
       /\ pc = "loop" =>
            \/ /\ pc' = "loop" /\ high_bits < NumGuesses
               /\ high_bits' = high_bits + 1 /\ ~Verified(high_bits)
            \/ /\ pc' = "returned" /\ high_bits < NumGuesses
               /\ high_bits' = high_bits /\ Verified(high_bits)
            \/ /\ pc' = "raised" /\ high_bits = NumGuesses
               /\ high_bits' = high_bits
               /\ \A hb \in 0..(NumGuesses - 1) : ~Verified(hb)
       /\ (pc = "loop" /\ high_bits < NumGuesses
             /\ ~OnCurveX(guess_of(high_bits, observed1))) => pc' = "loop"
       /\ pc # "loop" => pc' \notin {"raised", "returned"} \/ pc' = pc]_vars

C6_Witness ==
    /\ pc = "raised" /\ high_bits = NumGuesses
    /\ \E hb \in 0..(NumGuesses - 1) : ~OnCurveX(guess_of(hb, observed1))
    /\ \E hb \in 0..(NumGuesses - 1) : OnCurveX(guess_of(hb, observed1))
    /\ observed2 < Pow2(ChkBits)

(* C7: high_bits is tried in increasing order from 0; the value returned   *)
(* is the prediction of the smallest high_bits passing both tests; no      *)
(* verified smaller candidate is skipped and nothing is evaluated after    *)
(* the first verified match.                                               *)
C7_FirstMatchInv ==
    /\ pc \in {"loop", "returned", "raised"} =>
           \A hb \in 0..(high_bits - 1) : ~Verified(hb)
    /\ pc = "returned" =>
           /\ Verified(high_bits)
           /\ guess = guess_of(high_bits, observed1)
           /\ result = CandidateOutput(high_bits) % Pow2(PredBits)

C7_TieBreak ==
    /\ []C7_FirstMatchInv
    /\ [][/\ pc = "returned" => (guess' = guess /\ high_bits' = high_bits
                                   /\ result' = result /\ pc' = pc)
          /\ (pc = "loop" /\ guess' # guess) =>
                 /\ guess' = guess_of(high_bits, observed1)
                 /\ (guess # -1 => guess' > guess)]_vars

C7_Witness ==
    /\ pc = "returned" /\ high_bits >= 1
    /\ \E hb \in (high_bits + 1)..(NumGuesses - 1) :
           /\ Verified(hb)
           /\ CandidateOutput(hb) # CandidateOutput(high_bits)

(* C8: find_point_on_p256(x) returns a point (x, y) exactly when x is the  *)
(* x-coordinate of a curve point, that point satisfies the curve equation, *)
(* and it returns None otherwise; x = 0 and x = p - 1 included.            *)
C8_CurveMembership ==
    guess # -1 =>
        /\ point # None <=> OnCurveX(guess)
        /\ point # None =>
               /\ point.x = guess
               /\ point.y \in 0..(P256_p - 1)
               /\ (point.y * point.y) % P256_p
                    = ((guess * guess * guess) - (3 * guess) + P256_b) % P256_p

C8_Witness ==
    /\ guess = P256_p - 1 /\ point # None /\ point.x = guess
    /\ find_point_on_p256(0) # None
    /\ \E x \in 1..(P256_p - 2) : find_point_on_p256(x) = None

(* C9 (as stated): in main(), the state computed for the accepted          *)
(* candidate is the generator's seed after its second genbits() call.      *)
C9_StateRecovered ==
    (caller = "main" /\ pc = "returned") => state = seed[1]

(* C9 (amended): in main(), with the first output's point finite, the      *)
(* candidate whose guess is the true x-coordinate x(s1 * Q) is a curve     *)
(* point and d times it has the seed after the second call as its          *)
(* x-coordinate, for either square root; when that candidate is the one    *)
(* accepted, state is that seed.                                           *)
C9_TrueCandidateState ==
    (Genuine /\ FirstPointFinite) =>
        /\ LET pt == find_point_on_p256(TrueR1)
           IN  /\ pt # None
               /\ mul(d, pt).x = seed[1]
               /\ mul(d, Neg(pt)).x = seed[1]
        /\ (pc = "returned" /\ guess = TrueR1) =>
               (state = seed[1] /\ mul(d, Neg(point)).x = seed[1])

C9_Witness ==
    /\ Genuine /\ FirstPointFinite /\ pc = "returned" /\ guess = TrueR1
    /\ state = seed[1]
    /\ point.y # mul(t[1], Q).y

(* C10: whatever the inputs, a returned value v is in [0, 2^208) and some  *)
(* high_bits has a curve point at x = (high_bits << 240) | observed1 whose *)
(* 30-byte value n = take30bytes(x(x(d * point) * Q)) has n >> 208 =       *)
(* observed2 and n & (2^208 - 1) = v.                                      *)
C10_ReturnedIsVerified ==
    pc = "returned" =>
        /\ result \in 0..(Pow2(PredBits) - 1)
        /\ \E hb \in 0..(NumGuesses - 1) : \E y \in 0..(P256_p - 1) :
               LET x == guess_of(hb, observed1)
               IN  /\ is_point_on_curve(x, y)
                   /\ LET n == mul(mul(d, [x |-> x, y |-> y]).x, Q).x % Pow2(OutBits)
                      IN  /\ n \div Pow2(PredBits) = observed2
                          /\ n % Pow2(PredBits) = result
                          /\ observed2 * Pow2(PredBits) + result = n

C10_Witness ==
    /\ pc = "returned" /\ caller = "direct"
    /\ mul(d, Q) # P
    /\ result > 0 /\ high_bits >= 1

====
